---------------------------- MODULE Spec2Model ----------------------------
(***************************************************************************)
(* Model of two units of gns3-server:                                      *)
(*   - the VPCS server module (gns3server/modules/vpcs/__init__.py): the   *)
(*     device registry, its console and UDP port cursors, the TAP          *)
(*     privilege check, the periodic liveness check and the update merge;  *)
(*   - the Hyper-V GNS3 VM controller                                      *)
(*     (gns3server/controller/gns3vm/hyperv_gns3_vm.py).                   *)
(*                                                                         *)
(* Collaborators whose source is not part of src/ (VPCSDevice,             *)
(* find_unused_port, BaseGNS3VM) are modelled from the specification.      *)
(***************************************************************************)
EXTENDS Integers, Sequences, FiniteSets, TLC

(***************************************************************************)
(* Program constants.                                                      *)
(***************************************************************************)
DefaultConsoleStart == 4001
DefaultConsoleEnd == 4512
DefaultUdpStart == 30001
DefaultUdpEnd == 40001

(***************************************************************************)
(* Bounds of the model.                                                    *)
(***************************************************************************)
\* instance identifiers handed out between two resets (pool specification)
MaxId == 4
\* size of the small port ranges a settings request may configure
RangeLen == 3
\* number of low ports of a pool the operating system may hold
BusyLen == 1
\* UDP allocations between two resets
MaxUdpAllocs == 4
\* devices of the UDP pool specification
MaxUdpDevices == 1

\* stands for the exception find_unused_port raises when it finds no port
NoPort == 0

VARIABLES
    \* ---- VPCS module (self._*) ----
    VPCS_instances,            \* self._VPCS_instances: id -> VPCSDevice
    next_id,                   \* VPCSDevice instance-id counter
    console_start_port_range,
    console_end_port_range,
    current_console_port,
    udp_start_port_range,
    udp_end_port_range,
    current_udp_port,
    working_dir,               \* self._working_dir
    VPCS_path,                 \* self._VPCS: path of the VPCS binary
    reply,                     \* what the last handler sent back
    \* ---- environment of the VPCS module ----
    os_busy_tcp,               \* TCP ports bound at OS level
    os_busy_udp,               \* UDP ports bound at OS level
    \* ---- observation of the pools (history) ----
    console_log,               \* console ports returned since the pool was reset / re-ranged
    console_fresh,             \* the log began at cursor = start and no port of the range was OS-busy since
    udp_log,
    udp_fresh,
    released,                  \* an instance was deleted since the logs began
    reset_deleted,             \* the last VPCS.reset found instances and deleted them
    \* ---- environment of the TAP privilege check ----
    euid,                      \* os.geteuid() of the server process
    vpcs_caps,                 \* the security.capability attribute of the VPCS binary
    \* ---- what the periodic check of the module did on its last run ----
    tick_seen,                 \* id -> the probes of the instance as the run found them
    notifications,             \* id -> notifications the run sent for the instance
    tick_stops,                \* ids the run called stop() on
    tick_registry,             \* the ids in the registry when the run began
    tick_failed,               \* the id whose probe, read or stop() failed in the run (0: none)
    tick_raised,               \* an exception left the run
    \* ---- the last VPCS.update ----
    response,                  \* the settings it reported as updated
    upd_request,               \* the request it received
    upd_before,                \* the instance as it was before
    \* ---- Hyper-V GNS3 VM controller (self._*) ----
    conn,                      \* self._conn: TRUE once the WMI connection object is set
    management,                \* self._management: TRUE once set
    vm,                        \* self._vm: NoVm or the index of the VM found
    running,                   \* self.running
    \* ---- the coroutines running start / suspend / stop ----
    pc,                        \* task -> "idle" | "sleep" (inside asyncio.sleep)
    task_op,                   \* task -> operation of its current or last call
    ret,                       \* task -> return code RequestStateChange gave it
    reads,                     \* task -> job objects fetched (_get_wmi_obj)
    sleeps,                    \* task -> asyncio.sleep calls made
    result,                    \* task -> outcome of its last finished call
    \* ---- Hyper-V (environment) ----
    nb_vms,                    \* number of VMs carrying the configured name
    enabled_state,             \* EnabledState of the VM
    job_state,                 \* task -> JobState of the job its request created
    vm_ram_set,                \* memory settings of the VM were modified
    vm_cpu_set,                \* processor settings of the VM were modified
    \* ---- observation of the controller (history) ----
    running_reads,             \* task -> reads that found the job running
    enable_confirmed,          \* Hyper-V confirmed a transition to enabled
    seen_enabled               \* start found the VM already enabled

poolVars == <<VPCS_instances, next_id, console_start_port_range, console_end_port_range,
              current_console_port, udp_start_port_range, udp_end_port_range,
              current_udp_port, working_dir, VPCS_path, reply, os_busy_tcp, os_busy_udp,
              console_log, console_fresh, udp_log, udp_fresh, released>>

vmVars == <<conn, management, vm, running, pc, task_op, ret, reads, sleeps, result,
            nb_vms, enabled_state, job_state, vm_ram_set, vm_cpu_set,
            running_reads, enable_confirmed, seen_enabled>>

devVars == <<euid, vpcs_caps, tick_seen, notifications, tick_stops,
             tick_registry, tick_failed, tick_raised,
             response, upd_request, upd_before>>

vars == <<poolVars, reset_deleted, devVars, vmVars>>

(***************************************************************************)
(* Helpers.                                                                *)
(***************************************************************************)
Min(S) == CHOOSE x \in S : \A y \in S : x <= y

Range(s) == {s[i] : i \in DOMAIN s}

NoDup(s) == \A i, j \in DOMAIN s : i # j => s[i] # s[j]

ProjectsDir == <<"projects">>

\* os.path.join(self._projects_dir, request["project_name"] + ".gns3")
ProjectDir(project_name) == <<"projects", project_name>>

\* the VPCS binary found at start-up (lines 68-80)
DefaultPath == <<"vpcs">>

\* default name VPCSDevice gives an instance: "VPCS<id>"
DefaultName(id) == <<"VPCS", id>>

(***************************************************************************)
(* find_unused_port(start_port, end_port, host): the OS-level probe.  It   *)
(* tries to bind each port from start_port to end_port and returns the     *)
(* first one the bind succeeds on; NoPort stands for the exception raised  *)
(* when no port of the span can be bound.                                  *)
(***************************************************************************)
RECURSIVE find_unused_port(_, _, _)
find_unused_port(start_port, end_port, busy) ==
    IF start_port > end_port THEN NoPort
    ELSE IF start_port \notin busy THEN start_port
    ELSE find_unused_port(start_port + 1, end_port, busy)

\* VPCSDevice(path, working_dir, host, name): a new, stopped device.
\*   started: the device was started and not stopped since
\*   running: is_running(), the process of the device is alive
\*   vpcs_running: is_VPCS_running(), the VPCS binary answers
\*   nios: <<slot, port>> -> NIO bound there
VPCSDevice(id, path, wd) ==
    [console |-> NoPort, name |-> DefaultName(id), working_dir |-> wd,
     VPCS |-> path, startup_config |-> <<>>, started |-> FALSE, running |-> FALSE,
     vpcs_running |-> FALSE, nios |-> <<>>]

\* status is "ok", "none" (nothing sent) or the kind of custom error sent
Reply(op, id, status, port) ==
    [op |-> op, id |-> id, status |-> status, port |-> port, nio |-> ""]

\* the reply of VPCS.add_nio to a request for a NIO of the given type
ReplyNio(id, status, type) ==
    [op |-> "add_nio", id |-> id, status |-> status, port |-> NoPort, nio |-> type]

(***************************************************************************)
(* VPCS.__init__                                                           *)
(***************************************************************************)
InitModule ==
    /\ VPCS_instances = <<>>
    /\ next_id = 1
    /\ console_start_port_range = DefaultConsoleStart
    /\ console_end_port_range = DefaultConsoleEnd
    /\ current_console_port = DefaultConsoleStart
    /\ udp_start_port_range = DefaultUdpStart
    /\ udp_end_port_range = DefaultUdpEnd
    /\ current_udp_port = DefaultUdpStart
    /\ working_dir = ProjectsDir
    /\ VPCS_path = DefaultPath
    /\ reply = Reply("init", 0, "none", NoPort)

\* the binary carries no security.capability attribute
NoCaps == [present |-> FALSE, readable |-> FALSE, data |-> <<>>]

InitDevices(uid, caps) ==
    /\ euid = uid
    /\ vpcs_caps = caps
    /\ tick_seen = <<>>
    /\ notifications = <<>>
    /\ tick_stops = {}
    /\ tick_registry = {}
    /\ tick_failed = 0
    /\ tick_raised = FALSE
    /\ response = <<>>
    /\ upd_request = <<>>
    /\ upd_before = <<>>

InitPoolHistory ==
    /\ console_log = <<>>
    /\ console_fresh = TRUE
    /\ udp_log = <<>>
    /\ udp_fresh = TRUE
    /\ released = FALSE
    /\ reset_deleted = FALSE

(***************************************************************************)
(* Environment: another process binds or frees a port.                     *)
(***************************************************************************)
OsTcpPorts == DefaultConsoleStart..(DefaultConsoleStart + BusyLen - 1)
OsUdpPorts == DefaultUdpStart..(DefaultUdpStart + BusyLen - 1)

OsBindTcp(p) ==
    /\ os_busy_tcp' = IF p \in os_busy_tcp THEN os_busy_tcp \ {p} ELSE os_busy_tcp \cup {p}
    /\ UNCHANGED <<VPCS_instances, next_id, console_start_port_range, console_end_port_range,
                   current_console_port, udp_start_port_range, udp_end_port_range,
                   current_udp_port, working_dir, VPCS_path, reply, os_busy_udp,
                   console_log, console_fresh, udp_log, udp_fresh, released>>

OsBindUdp(p) ==
    /\ os_busy_udp' = IF p \in os_busy_udp THEN os_busy_udp \ {p} ELSE os_busy_udp \cup {p}
    /\ UNCHANGED <<VPCS_instances, next_id, console_start_port_range, console_end_port_range,
                   current_console_port, udp_start_port_range, udp_end_port_range,
                   current_udp_port, working_dir, VPCS_path, reply, os_busy_tcp,
                   console_log, console_fresh, udp_log, udp_fresh, released>>

(***************************************************************************)
(* VPCS.create                                                             *)
(***************************************************************************)
\* a cursor that never wraps
ConsoleCursorNoWrap(cur, first, last) == cur

\* lines 297-298: the console cursor wraps once it has passed the end
ConsoleCursor(cur, first, last) == IF cur > last THEN first ELSE cur

\* line 303: the cursor moves one past the position the search began at
ConsoleCursorAfter(cur, port) == cur + 1

\* path: request["path"], the binary the new device is given (lines 285, 295)
VPCS_create(path, mkdir_ok) ==
    IF ~mkdir_ok
    THEN \* os.makedirs failed: VPCSError before the device is constructed
         /\ reply' = Reply("create", 0, "mkdir", NoPort)
         /\ UNCHANGED <<VPCS_instances, next_id, console_start_port_range,
                        console_end_port_range, current_console_port,
                        udp_start_port_range, udp_end_port_range, current_udp_port,
                        working_dir, VPCS_path, os_busy_tcp, os_busy_udp,
                        console_log, console_fresh, udp_log, udp_fresh, released>>
    ELSE LET id   == next_id
             cur  == ConsoleCursor(current_console_port, console_start_port_range,
                                   console_end_port_range)
             port == find_unused_port(cur, console_end_port_range, os_busy_tcp)
             quiet == \A p \in os_busy_tcp :
                          p < console_start_port_range \/ p > console_end_port_range
         IN  /\ next_id' = next_id + 1          \* VPCSDevice(...) was constructed
             /\ console_fresh' = (console_fresh /\ quiet)
             /\ IF port = NoPort
                THEN /\ current_console_port' = cur
                     /\ reply' = Reply("create", id, "noport", NoPort)
                     /\ UNCHANGED <<VPCS_instances, console_log>>
                ELSE /\ current_console_port' = ConsoleCursorAfter(cur, port)
                     /\ VPCS_instances' =
                            [i \in DOMAIN VPCS_instances \cup {id} |->
                               IF i = id
                               THEN [VPCSDevice(id, path, working_dir) EXCEPT !.console = port]
                               ELSE VPCS_instances[i]]
                     /\ console_log' = Append(console_log, port)
                     /\ reply' = Reply("create", id, "ok", port)
             /\ UNCHANGED <<console_start_port_range, console_end_port_range,
                            udp_start_port_range, udp_end_port_range, current_udp_port,
                            working_dir, VPCS_path, os_busy_tcp, os_busy_udp,
                            udp_log, udp_fresh, released>>

(***************************************************************************)
(* VPCS.delete                                                             *)
(***************************************************************************)
VPCS_delete(id) ==
    IF id \notin DOMAIN VPCS_instances
    THEN /\ reply' = Reply("delete", id, "notfound", NoPort)
         /\ UNCHANGED <<VPCS_instances, next_id, console_start_port_range,
                        console_end_port_range, current_console_port,
                        udp_start_port_range, udp_end_port_range, current_udp_port,
                        working_dir, VPCS_path, os_busy_tcp, os_busy_udp,
                        console_log, console_fresh, udp_log, udp_fresh, released>>
    ELSE /\ VPCS_instances' = [i \in DOMAIN VPCS_instances \ {id} |-> VPCS_instances[i]]
         /\ released' = TRUE
         /\ reply' = Reply("delete", id, "ok", NoPort)
         /\ UNCHANGED <<next_id, console_start_port_range,
                        console_end_port_range, current_console_port,
                        udp_start_port_range, udp_end_port_range, current_udp_port,
                        working_dir, VPCS_path, os_busy_tcp, os_busy_udp,
                        console_log, console_fresh, udp_log, udp_fresh>>

(***************************************************************************)
(* VPCS.reset                                                              *)
(***************************************************************************)
\* a reset that leaves the cursor where it is
CursorKeptOnReset(cur, first) == cur

\* lines 182-183: the cursor goes back to the configured start of its range
CursorAfterReset(cur, first) == first

reset ==
    /\ reset_deleted' = (DOMAIN VPCS_instances # {})   \* VPCS_instance.delete() on each
    /\ VPCS_instances' = <<>>
    /\ next_id' = 1                               \* VPCSDevice.reset()
    /\ current_console_port' = CursorAfterReset(current_console_port, console_start_port_range)
    /\ current_udp_port' = CursorAfterReset(current_udp_port, udp_start_port_range)
    /\ reply' = Reply("reset", 0, "none", NoPort)
    /\ console_log' = <<>>
    /\ console_fresh' = TRUE
    /\ udp_log' = <<>>
    /\ udp_fresh' = TRUE
    /\ released' = FALSE
    /\ UNCHANGED <<console_start_port_range, console_end_port_range,
                   udp_start_port_range, udp_end_port_range,
                   working_dir, VPCS_path, os_busy_tcp, os_busy_udp>>

(***************************************************************************)
(* VPCS.settings                                                           *)
(***************************************************************************)
Has(request, field) == field \in DOMAIN request

settings(request, isdir_new, move_ok) ==
    LET new_working_dir ==
            IF Has(request, "working_dir") THEN request.working_dir
            ELSE ProjectDir(request.project_name)
        \* lines 217-220: the old directory is moved to the new place
        move == /\ ~Has(request, "working_dir")
                /\ ProjectsDir # working_dir
                /\ working_dir # new_working_dir
                /\ ~isdir_new
        new_console == Has(request, "console_start_port_range")
                         /\ Has(request, "console_end_port_range")
        new_udp == Has(request, "udp_start_port_range")
                     /\ Has(request, "udp_end_port_range")
        cs == IF new_console THEN request.console_start_port_range
              ELSE console_start_port_range
        ce == IF new_console THEN request.console_end_port_range
              ELSE console_end_port_range
        us == IF new_udp THEN request.udp_start_port_range ELSE udp_start_port_range
        ue == IF new_udp THEN request.udp_end_port_range ELSE udp_end_port_range
        console_changed == <<cs, ce>> # <<console_start_port_range, console_end_port_range>>
        udp_changed == <<us, ue>> # <<udp_start_port_range, udp_end_port_range>>
    IN  /\ VPCS_path' = IF Has(request, "VPCS") /\ request.VPCS # <<>>
                        THEN request.VPCS ELSE VPCS_path
        /\ IF move /\ ~move_ok
           THEN \* line 225: the handler returns
                /\ reply' = Reply("settings", 0, "move_failed", NoPort)
                /\ UNCHANGED <<VPCS_instances, console_start_port_range,
                               console_end_port_range, udp_start_port_range,
                               udp_end_port_range, working_dir,
                               console_log, console_fresh, udp_log, udp_fresh, released>>
           ELSE /\ working_dir' = new_working_dir
                /\ VPCS_instances' =
                       IF working_dir # new_working_dir
                       THEN [i \in DOMAIN VPCS_instances |->
                               [VPCS_instances[i] EXCEPT !.working_dir = new_working_dir]]
                       ELSE VPCS_instances
                /\ console_start_port_range' = cs
                /\ console_end_port_range' = ce
                /\ udp_start_port_range' = us
                /\ udp_end_port_range' = ue
                /\ reply' = Reply("settings", 0, "none", NoPort)
                /\ console_log' = IF console_changed THEN <<>> ELSE console_log
                /\ console_fresh' = IF console_changed THEN current_console_port = cs
                                    ELSE console_fresh
                /\ udp_log' = IF udp_changed THEN <<>> ELSE udp_log
                /\ udp_fresh' = IF udp_changed THEN current_udp_port = us ELSE udp_fresh
                /\ released' = IF console_changed \/ udp_changed THEN FALSE ELSE released
        /\ UNCHANGED <<next_id, current_console_port, current_udp_port,
                       os_busy_tcp, os_busy_udp>>

(***************************************************************************)
(* VPCS.allocate_udp_port                                                  *)
(***************************************************************************)
\* lines 531-532: the UDP cursor wraps
UdpCursor(cur, first, last) == IF cur >= last THEN first ELSE cur

\* an allocation that moves the cursor before it looks the instance up
allocate_udp_port_then_lookup(id) ==
    LET cur  == UdpCursor(current_udp_port, udp_start_port_range, udp_end_port_range)
        port == find_unused_port(cur, udp_end_port_range, os_busy_udp)
        found == id \in DOMAIN VPCS_instances
    IN  /\ current_udp_port' = IF port = NoPort THEN cur ELSE cur + 1
        /\ reply' = Reply("allocate_udp_port", id,
                          IF ~found THEN "notfound" ELSE IF port = NoPort THEN "noport" ELSE "ok",
                          IF found THEN port ELSE NoPort)
        /\ udp_log' = IF found /\ port # NoPort THEN Append(udp_log, port) ELSE udp_log
        /\ UNCHANGED <<VPCS_instances, next_id, console_start_port_range,
                       console_end_port_range, current_console_port,
                       udp_start_port_range, udp_end_port_range,
                       working_dir, VPCS_path, os_busy_tcp, os_busy_udp,
                       console_log, console_fresh, udp_fresh, released>>

allocate_udp_port(id) ==
    IF id \notin DOMAIN VPCS_instances
    THEN /\ reply' = Reply("allocate_udp_port", id, "notfound", NoPort)
         /\ UNCHANGED <<VPCS_instances, next_id, console_start_port_range,
                        console_end_port_range, current_console_port,
                        udp_start_port_range, udp_end_port_range, current_udp_port,
                        working_dir, VPCS_path, os_busy_tcp, os_busy_udp,
                        console_log, console_fresh, udp_log, udp_fresh, released>>
    ELSE LET cur  == UdpCursor(current_udp_port, udp_start_port_range, udp_end_port_range)
             port == find_unused_port(cur, udp_end_port_range, os_busy_udp)
             quiet == \A p \in os_busy_udp :
                          p < udp_start_port_range \/ p > udp_end_port_range
         IN  /\ udp_fresh' = (udp_fresh /\ quiet)
             /\ IF port = NoPort
                THEN /\ current_udp_port' = cur
                     /\ reply' = Reply("allocate_udp_port", id, "noport", NoPort)
                     /\ UNCHANGED udp_log
                ELSE /\ current_udp_port' = cur + 1
                     /\ udp_log' = Append(udp_log, port)
                     /\ reply' = Reply("allocate_udp_port", id, "ok", port)
             /\ UNCHANGED <<VPCS_instances, next_id, console_start_port_range,
                            console_end_port_range, current_console_port,
                            udp_start_port_range, udp_end_port_range,
                            working_dir, VPCS_path, os_busy_tcp, os_busy_udp,
                            console_log, console_fresh, released>>


(***************************************************************************)
(*             VPCS module: devices, NIOs, periodic check, update          *)
(***************************************************************************)
\* the variables of the module other than the registry and the reply
cfgVars == <<next_id, console_start_port_range, console_end_port_range,
             current_console_port, udp_start_port_range, udp_end_port_range,
             current_udp_port, working_dir, VPCS_path, os_busy_tcp, os_busy_udp,
             console_log, console_fresh, udp_log, udp_fresh, released>>

tickVars == <<tick_seen, notifications, tick_stops, tick_registry, tick_failed, tick_raised>>
updVars == <<response, upd_request, upd_before>>
capVars == <<euid, vpcs_caps>>

\* the registry with instance id replaced by inst
With(id, inst) == [VPCS_instances EXCEPT ![id] = inst]

\* VPCSDevice.start(): the process is spawned
DeviceStart(inst) ==
    [inst EXCEPT !.started = TRUE, !.running = TRUE, !.vpcs_running = TRUE]

\* VPCSDevice.stop(): the process is terminated; a no-op on a stopped device
DeviceStop(inst) ==
    [inst EXCEPT !.started = FALSE, !.running = FALSE, !.vpcs_running = FALSE]

(***************************************************************************)
(* VPCS.start and VPCS.stop                                                *)
(***************************************************************************)
vm_start(id, spawn_ok) ==
    /\ IF id \notin DOMAIN VPCS_instances
       THEN /\ reply' = Reply("start", id, "notfound", NoPort)
            /\ UNCHANGED VPCS_instances
       ELSE LET inst == [VPCS_instances[id] EXCEPT !.VPCS = VPCS_path]
            IN  IF inst.running
                THEN /\ VPCS_instances' = With(id, inst)
                     /\ reply' = Reply("start", id, "alreadyrunning", NoPort)
                ELSE IF ~spawn_ok
                THEN /\ VPCS_instances' = With(id, inst)
                     /\ reply' = Reply("start", id, "spawnfailed", NoPort)
                ELSE /\ VPCS_instances' = With(id, DeviceStart(inst))
                     /\ reply' = Reply("start", id, "ok", NoPort)
    /\ UNCHANGED <<cfgVars, tickVars, updVars, capVars>>

vm_stop(id) ==
    /\ IF id \notin DOMAIN VPCS_instances
       THEN /\ reply' = Reply("stop", id, "notfound", NoPort)
            /\ UNCHANGED VPCS_instances
       ELSE /\ VPCS_instances' = With(id, DeviceStop(VPCS_instances[id]))
            /\ reply' = Reply("stop", id, "ok", NoPort)
    /\ UNCHANGED <<cfgVars, tickVars, updVars, capVars>>

(***************************************************************************)
(* VPCS.reload                                                             *)
(***************************************************************************)
\* lines 494-497: stop() if is_running(), then start(); the device keeps the
\* binary path it has
vm_reload(id, spawn_ok) ==
    /\ IF id \notin DOMAIN VPCS_instances
       THEN /\ reply' = Reply("reload", id, "notfound", NoPort)
            /\ UNCHANGED VPCS_instances
       ELSE LET inst == VPCS_instances[id]
                stopped == IF inst.running THEN DeviceStop(inst) ELSE inst
            IN  IF ~spawn_ok
                THEN /\ VPCS_instances' = With(id, stopped)
                     /\ reply' = Reply("reload", id, "spawnfailed", NoPort)
                ELSE /\ VPCS_instances' = With(id, DeviceStart(stopped))
                     /\ reply' = Reply("reload", id, "ok", NoPort)
    /\ UNCHANGED <<cfgVars, tickVars, updVars, capVars>>

(***************************************************************************)
(* Environment: the process of a started device dies; its VPCS binary      *)
(* stops answering.                                                        *)
(***************************************************************************)
ProcessDies(id) ==
    /\ id \in DOMAIN VPCS_instances
    /\ VPCS_instances[id].running
    /\ VPCS_instances' = With(id, [VPCS_instances[id] EXCEPT !.running = FALSE])
    /\ UNCHANGED <<reply, cfgVars, tickVars, updVars, capVars>>

BackendHangs(id) ==
    /\ id \in DOMAIN VPCS_instances
    /\ VPCS_instances[id].vpcs_running
    /\ VPCS_instances' = With(id, [VPCS_instances[id] EXCEPT !.vpcs_running = FALSE])
    /\ UNCHANGED <<reply, cfgVars, tickVars, updVars, capVars>>

(***************************************************************************)
(* _check_VPCS_is_alive: one run of the periodic callback.                 *)
(***************************************************************************)
\* line 133
IsDown(inst) == inst.started /\ (~inst.running \/ ~inst.vpcs_running)

\* one notification for each probe that fails
NotificationsPerProbe(inst) ==
    (IF ~inst.running THEN 1 ELSE 0) + (IF ~inst.vpcs_running THEN 1 ELSE 0)

\* lines 137-146: notifications sent for an instance found down
NotificationsFor(inst) ==
    IF ~inst.running THEN 1
    ELSE IF ~inst.vpcs_running THEN 1
    ELSE 0

Probes(inst) ==
    [started |-> inst.started, running |-> inst.running,
     vpcs_running |-> inst.vpcs_running]

check_VPCS_is_alive ==
    /\ tick_seen' = [i \in DOMAIN VPCS_instances |-> Probes(VPCS_instances[i])]
    /\ notifications' =
          [i \in DOMAIN VPCS_instances |->
             IF IsDown(VPCS_instances[i]) THEN NotificationsFor(VPCS_instances[i]) ELSE 0]
    /\ tick_stops' = {i \in DOMAIN VPCS_instances : IsDown(VPCS_instances[i])}
    /\ VPCS_instances' =
          [i \in DOMAIN VPCS_instances |->
             IF IsDown(VPCS_instances[i]) THEN DeviceStop(VPCS_instances[i])
             ELSE VPCS_instances[i]]
    /\ tick_registry' = DOMAIN VPCS_instances
    /\ tick_failed' = 0
    /\ tick_raised' = FALSE
    /\ UNCHANGED <<reply, cfgVars, updVars, capVars>>

\* the calls of one iteration that can fail: the probes of line 133, the
\* read of the output at lines 138 and 143, stop() at line 147
TickCalls == {"probe", "read", "stop"}

\* A run in which a call on instance fail_id fails.  The loop of line 131
\* visits the instances in the order they were registered, which is the order
\* of their ids; no statement of lines 131-147 is inside a try, so the
\* exception ends the loop and leaves the callback.  The instances before
\* fail_id were handled; for fail_id the statements before the failing call
\* ran; the instances after it were not visited.
check_VPCS_is_alive_raises(fail_id, call) ==
    /\ fail_id \in DOMAIN VPCS_instances
    /\ VPCS_instances[fail_id].started
    /\ call # "probe" => IsDown(VPCS_instances[fail_id])
    /\ \E before \in {{i \in DOMAIN VPCS_instances : i < fail_id}} :
          /\ tick_seen' =
                [i \in before \cup (IF call = "probe" THEN {} ELSE {fail_id})
                    |-> Probes(VPCS_instances[i])]
          /\ notifications' =
                [i \in before \cup {fail_id} |->
                   IF i = fail_id
                   THEN (IF call = "stop" THEN NotificationsFor(VPCS_instances[i]) ELSE 0)
                   ELSE IF IsDown(VPCS_instances[i])
                        THEN NotificationsFor(VPCS_instances[i]) ELSE 0]
          /\ tick_stops' = {i \in before : IsDown(VPCS_instances[i])}
          /\ VPCS_instances' =
                [i \in DOMAIN VPCS_instances |->
                   IF i \in before /\ IsDown(VPCS_instances[i])
                   THEN DeviceStop(VPCS_instances[i])
                   ELSE VPCS_instances[i]]
    /\ tick_registry' = DOMAIN VPCS_instances
    /\ tick_failed' = fail_id
    /\ tick_raised' = TRUE
    /\ UNCHANGED <<reply, cfgVars, updVars, capVars>>

(***************************************************************************)
(* _check_for_privileged_access                                            *)
(***************************************************************************)
RootUid == 0
CAP_NET_RAW == 13
\* struct.calcsize("<IIIII"): five 32-bit words
CapsStructSize == 5 * 4

RECURSIVE Pow2(_)
Pow2(n) == IF n = 0 THEN 1 ELSE 2 * Pow2(n - 1)

\* the k-th (from 0) little-endian 32-bit word of a byte string
Word(data, k) ==
    data[4 * k + 1] + 256 * data[4 * k + 2] + 65536 * data[4 * k + 3]
        + 16777216 * data[4 * k + 4]

\* x & (1 << bit) is not zero
BitSet(x, bit) == (x \div Pow2(bit)) % 2 = 1

\* "ok" when the check returns, "noaccess" when it raises VPCSError.  The
\* binary at VPCS_path exists: euid and vpcs_caps describe the process and the
\* binary's security.capability attribute.
check_for_privileged_access(uid, caps) ==
    IF uid = RootUid THEN "ok"
    ELSE IF caps.present
    THEN IF ~caps.readable
         THEN "ok"        \* os.getxattr raised: line 570-572, error logged, return
         ELSE IF Len(caps.data) # CapsStructSize
         THEN "ok"        \* struct.unpack raised: line 570-572, error logged, return
         ELSE IF BitSet(Word(caps.data, 1), CAP_NET_RAW)
         THEN "ok"
         ELSE "noaccess"
    ELSE "noaccess"

(***************************************************************************)
(* VPCS.add_nio and VPCS.delete_nio                                        *)
(***************************************************************************)
NIO_UDP(lport, rhost, rport) == [type |-> "nio_udp", args |-> <<lport, rhost, rport>>]
NIO_TAP(tap_device) == [type |-> "nio_tap", args |-> <<tap_device>>]

\* lines 611-623: the NIO built for the request, or the error
make_nio(type) ==
    IF type = "nio_udp"
    THEN [nio |-> NIO_UDP(DefaultUdpStart, "127.0.0.1", DefaultUdpStart + 1), error |-> ""]
    ELSE IF type = "nio_tap"
    THEN IF check_for_privileged_access(euid, vpcs_caps) = "ok"
         THEN [nio |-> NIO_TAP("tap0"), error |-> ""]
         ELSE [nio |-> <<>>, error |-> "noaccess"]
    ELSE [nio |-> <<>>, error |-> "unsupported"]

\* VPCSDevice.slot_add_nio_binding
Bind(inst, slot, port, nio) ==
    [inst EXCEPT !.nios = [b \in DOMAIN inst.nios \cup {<<slot, port>>} |->
                             IF b = <<slot, port>> THEN nio ELSE inst.nios[b]]]

\* VPCSDevice.slot_remove_nio_binding
Unbind(inst, slot, port) ==
    [inst EXCEPT !.nios = [b \in DOMAIN inst.nios \ {<<slot, port>>} |-> inst.nios[b]]]

add_nio(id, type, slot, port) ==
    /\ IF id \notin DOMAIN VPCS_instances
       THEN /\ reply' = ReplyNio(id, "notfound", type)
            /\ UNCHANGED VPCS_instances
       ELSE LET made == make_nio(type)
                inst == VPCS_instances[id]
            IN  IF made.error # ""
                THEN /\ reply' = ReplyNio(id, made.error, type)
                     /\ UNCHANGED VPCS_instances
                ELSE IF <<slot, port>> \in DOMAIN inst.nios
                THEN /\ reply' = ReplyNio(id, "slotconflict", type)
                     /\ UNCHANGED VPCS_instances
                ELSE /\ VPCS_instances' = With(id, Bind(inst, slot, port, made.nio))
                     /\ reply' = ReplyNio(id, "ok", type)
    /\ UNCHANGED <<cfgVars, tickVars, updVars, capVars>>

delete_nio(id, slot, port) ==
    /\ IF id \notin DOMAIN VPCS_instances
       THEN /\ reply' = Reply("delete_nio", id, "notfound", NoPort)
            /\ UNCHANGED VPCS_instances
       ELSE LET inst == VPCS_instances[id]
            IN  IF <<slot, port>> \notin DOMAIN inst.nios
                THEN /\ reply' = Reply("delete_nio", id, "nobinding", NoPort)
                     /\ UNCHANGED VPCS_instances
                ELSE /\ VPCS_instances' = With(id, Unbind(inst, slot, port))
                     /\ reply' = Reply("delete_nio", id, "ok", NoPort)
    /\ UNCHANGED <<cfgVars, tickVars, updVars, capVars>>

(***************************************************************************)
(* VPCS.update                                                             *)
(***************************************************************************)
\* hasattr(VPCS_instance, name)
HasAttr(name) == name \in {"id", "name", "console", "startup_config"}

\* getattr(VPCS_instance, name)
GetAttr(id, inst, name) == IF name = "id" THEN id ELSE inst[name]

\* os.path.basename(config_path)
StartupConfigFile == <<"startup-config">>

\* lines 378-390: the request once a pushed startup-config has been saved
EffectiveRequest(request) ==
    IF Has(request, "startup_config_base64")
    THEN [f \in DOMAIN request \cup {"startup_config"} |->
            IF f = "startup_config" THEN StartupConfigFile ELSE request[f]]
    ELSE request

\* a merge that sets every field the instance has
AppliesAlways(id, inst, name, value) == HasAttr(name)

\* line 398: the field is set and reported
Applies(id, inst, name, value) == HasAttr(name) /\ GetAttr(id, inst, name) # value

\* lines 396-400: the fields the loop sets and reports
ChangedFields(id, inst, request) ==
    {name \in DOMAIN request : Applies(id, inst, name, request[name])}

VPCS_update(id, request, write_ok) ==
    /\ IF id \notin DOMAIN VPCS_instances
       THEN /\ reply' = Reply("update", id, "notfound", NoPort)
            /\ UNCHANGED <<VPCS_instances, updVars>>
       ELSE /\ upd_request' = request
            /\ upd_before' = VPCS_instances[id]
            /\ IF Has(request, "startup_config_base64") /\ ~write_ok
               THEN \* the file cannot be written: VPCSError, line 388
                    /\ reply' = Reply("update", id, "savefailed", NoPort)
                    /\ response' = <<>>
                    /\ UNCHANGED VPCS_instances
               ELSE \E eff \in {EffectiveRequest(request)} :
                    \E changed \in {ChangedFields(id, VPCS_instances[id], eff)} :
                       /\ VPCS_instances' =
                             With(id, [f \in DOMAIN VPCS_instances[id] |->
                                         IF f \in changed THEN eff[f]
                                         ELSE VPCS_instances[id][f]])
                       /\ response' = [f \in changed |-> eff[f]]
                       /\ reply' = Reply("update", id, "ok", NoPort)
    /\ UNCHANGED <<cfgVars, tickVars, capVars>>

(***************************************************************************)
(*                  Hyper-V GNS3 VM controller                             *)
(***************************************************************************)
HYPERV_VM_STATE_ENABLED == 2
HYPERV_VM_STATE_DISABLED == 3
HYPERV_VM_STATE_PAUSED == 9

WMI_JOB_STATUS_STARTED == 4096
WMI_JOB_STATE_RUNNING == 4
WMI_JOB_STATE_COMPLETED == 7
\* a job that ended with an exception (JobState 10 of CIM_ConcreteJob)
WMI_JOB_STATE_EXCEPTION == 10

\* return codes of RequestStateChange other than "job started"
RET_COMPLETED == 0
RET_INVALID_STATE == 32775
\* "Failed" (32768)
RET_FAILED == 32768
\* no request was made
NoRet == -1

\* self._vm = None
NoVm == 0

\* the jobs Hyper-V may report running that many times in a row
MaxPolls == 3

Tasks == {"t1", "t2"}

Rets == {RET_COMPLETED, WMI_JOB_STATUS_STARTED, RET_INVALID_STATE, RET_FAILED}

JobStates == {WMI_JOB_STATE_RUNNING, WMI_JOB_STATE_COMPLETED, WMI_JOB_STATE_EXCEPTION}

TargetState(o) ==
    CASE o = "start" -> HYPERV_VM_STATE_ENABLED
      [] o = "suspend" -> HYPERV_VM_STATE_PAUSED
      [] o = "stop" -> HYPERV_VM_STATE_DISABLED

\* outcome of a call: status "ok", or "error" with the exception type, the
\* action its message names ("" when it names none) and the cause it carries
Ok == [status |-> "ok", type |-> "", action |-> "", cause |-> <<>>]
NoResult == [status |-> "none", type |-> "", action |-> "", cause |-> <<>>]
Error(type, action, cause) ==
    [status |-> "error", type |-> type, action |-> action, cause |-> cause]

\* HyperVGNS3VM.__init__ (running is False in BaseGNS3VM)
InitController ==
    /\ conn = FALSE
    /\ management = FALSE
    /\ vm = NoVm
    /\ running = FALSE
    /\ pc = [t \in Tasks |-> "idle"]
    /\ task_op = [t \in Tasks |-> "none"]
    /\ ret = [t \in Tasks |-> NoRet]
    /\ reads = [t \in Tasks |-> 0]
    /\ sleeps = [t \in Tasks |-> 0]
    /\ result = [t \in Tasks |-> NoResult]
    /\ running_reads = [t \in Tasks |-> 0]
    /\ enable_confirmed = FALSE
    /\ seen_enabled = FALSE

InitHyperV(n, state) ==
    /\ nb_vms = n
    /\ enabled_state = state
    /\ job_state = [t \in Tasks |-> WMI_JOB_STATE_COMPLETED]
    /\ vm_ram_set = FALSE
    /\ vm_cpu_set = FALSE

\* a lookup that takes the first VM when several carry the name
find_vm_first(nb) ==
    IF nb = 0 THEN [vm |-> NoVm, error |-> ""]
    ELSE [vm |-> 1, error |-> ""]

\* _find_vm: the VM found, or the error raised
find_vm(nb) ==
    IF nb = 0 THEN [vm |-> NoVm, error |-> ""]
    ELSE IF nb > 1 THEN [vm |-> NoVm, error |-> "Duplicate VM name found"]
    ELSE [vm |-> 1, error |-> ""]

\* _connect: the fields after the call and the exception that left it, if any
connect(req_ok, wmi_ok, perm_ok) ==
    IF ~req_ok
    THEN [conn |-> conn, management |-> management, vm |-> vm,
          error |-> Error("GNS3VMError", "", <<"requirements">>)]
    ELSE IF ~wmi_ok
    THEN \* x_wmi is printed, self._conn is still None and its use fails
         [conn |-> conn, management |-> management, vm |-> vm,
          error |-> Error("AttributeError", "", <<"NoneType">>)]
    ELSE IF ~perm_ok
    THEN [conn |-> TRUE, management |-> management, vm |-> vm,
          error |-> Error("GNS3VMError", "", <<"permissions">>)]
    ELSE LET f == find_vm(nb_vms)
         IN  IF f.error # ""
             THEN [conn |-> TRUE, management |-> TRUE, vm |-> vm,
                   error |-> Error("GNS3VMError", "", <<f.error>>)]
             ELSE [conn |-> TRUE, management |-> TRUE, vm |-> f.vm, error |-> Ok]

\* a check that never takes the VM for running
is_running_never(v, state) == FALSE

\* _is_running
is_running(v, state) == v # NoVm /\ state = HYPERV_VM_STATE_ENABLED

\* a loop that goes on until the job is completed
PollsUntilCompleted(js) == js # WMI_JOB_STATE_COMPLETED

\* line 172: the loop sleeps and reads again
PollsAgain(js) == js = WMI_JOB_STATE_RUNNING

\* job.ErrorSummaryDescription of a job seen in state js
ErrorSummaryDescription(js) == <<"summary of job in state", js>>

\* a check that takes every job that left the running state for a success
JobAlwaysFine(js) == <<>>

\* lines 175-176: <<>> when the job is fine, else the message of the
\* GNS3VMError _set_state raises
JobError(js) ==
    IF js # WMI_JOB_STATE_COMPLETED
    THEN <<"Error while changing state">> \o ErrorSummaryDescription(js)
    ELSE <<>>

\* lines 177-178: <<>> when the immediate return code is fine, else the
\* message of the GNS3VMError _set_state raises
RetError(r) ==
    IF r # RET_COMPLETED \/ r # RET_INVALID_STATE
    THEN <<"Failed to change state">>
    ELSE <<>>

\* except GNS3VMError as e: raise GNS3VMError("Failed to <action> the GNS3 VM: ...")
Wrapped(action, cause) == Error("GNS3VMError", action, cause)

\* a call that writes the flag whatever its outcome
FinishWritesAlways(t, o, res, confirmed, seen) ==
    /\ result' = [result EXCEPT ![t] = res]
    /\ pc' = [pc EXCEPT ![t] = "idle"]
    /\ running' = (o = "start")
    /\ enable_confirmed' = (confirmed \/ enable_confirmed)
    /\ seen_enabled' = (seen \/ seen_enabled)

\* a call of task t ends with outcome res: lines 205, 221, 237 set the flag
\* when no exception left the call.  confirmed / seen: what Hyper-V showed
\* during the call (kept until a suspend or stop succeeds).
Finish(t, o, res, confirmed, seen) ==
    /\ result' = [result EXCEPT ![t] = res]
    /\ pc' = [pc EXCEPT ![t] = "idle"]
    /\ running' = IF res.status = "ok" THEN (o = "start") ELSE running
    /\ enable_confirmed' =
          IF confirmed THEN TRUE
          ELSE IF res.status = "ok" /\ o # "start" THEN FALSE
          ELSE enable_confirmed
    /\ seen_enabled' =
          IF seen THEN TRUE
          ELSE IF res.status = "ok" /\ o # "start" THEN FALSE
          ELSE seen_enabled

\* Hyper-V's answer to RequestStateChange: the state changes at once when the
\* request completes synchronously or its job is already completed
StateAfterRequest(o, r, js) ==
    IF r = RET_COMPLETED \/ (r = WMI_JOB_STATUS_STARTED /\ js = WMI_JOB_STATE_COMPLETED)
    THEN TargetState(o) ELSE enabled_state

\* Hyper-V confirmed that the VM went to the enabled state
Confirms(o, r, js) ==
    /\ o = "start"
    /\ \/ r = RET_COMPLETED
       \/ r = WMI_JOB_STATUS_STARTED /\ js = WMI_JOB_STATE_COMPLETED

(***************************************************************************)
(* _set_state up to its first sleep, run by task t for operation o, with   *)
(* Hyper-V answering r and, for a job, showing it in state js.             *)
(***************************************************************************)
set_state(t, o, r, js) ==
    /\ ret' = [ret EXCEPT ![t] = r]
    /\ enabled_state' = StateAfterRequest(o, r, js)
    /\ IF r = WMI_JOB_STATUS_STARTED
       THEN /\ job_state' = [job_state EXCEPT ![t] = js]
            /\ reads' = [reads EXCEPT ![t] = 1]
            /\ running_reads' = [running_reads EXCEPT ![t] =
                                   IF js = WMI_JOB_STATE_RUNNING THEN 1 ELSE 0]
            /\ IF PollsAgain(js)
               THEN /\ sleeps' = [sleeps EXCEPT ![t] = 1]
                    /\ pc' = [pc EXCEPT ![t] = "sleep"]
                    /\ result' = [result EXCEPT ![t] = NoResult]
                    /\ UNCHANGED <<running, enable_confirmed, seen_enabled>>
               ELSE /\ sleeps' = [sleeps EXCEPT ![t] = 0]
                    /\ Finish(t, o,
                              IF JobError(js) # <<>> THEN Wrapped(o, JobError(js)) ELSE Ok,
                              Confirms(o, r, js), FALSE)
       ELSE /\ reads' = [reads EXCEPT ![t] = 0]
            /\ sleeps' = [sleeps EXCEPT ![t] = 0]
            /\ running_reads' = [running_reads EXCEPT ![t] = 0]
            /\ UNCHANGED job_state
            /\ Finish(t, o,
                      IF RetError(r) # <<>> THEN Wrapped(o, RetError(r)) ELSE Ok,
                      Confirms(o, r, js), FALSE)

\* the call ends before any transition request is made
ends_early(t, o, res, seen) ==
    /\ ret' = [ret EXCEPT ![t] = NoRet]
    /\ reads' = [reads EXCEPT ![t] = 0]
    /\ sleeps' = [sleeps EXCEPT ![t] = 0]
    /\ running_reads' = [running_reads EXCEPT ![t] = 0]
    /\ UNCHANGED <<enabled_state, job_state>>
    /\ Finish(t, o, res, FALSE, seen)

\* a start that counts the vCPUs only once the memory has been set
start_checks_vcpus_late(t, req_ok, wmi_ok, perm_ok, vcpus_ok, ram_ok, cpu_ok, r, js) ==
    /\ pc[t] = "idle"
    /\ task_op' = [task_op EXCEPT ![t] = "start"]
    /\ LET c == IF conn
                THEN [conn |-> conn, management |-> management, vm |-> vm, error |-> Ok]
                ELSE connect(req_ok, wmi_ok, perm_ok)
       IN  /\ conn' = c.conn
           /\ management' = c.management
           /\ vm' = c.vm
           /\ IF c.error.status = "error"
              THEN /\ ends_early(t, "start", c.error, FALSE)
                   /\ UNCHANGED <<vm_ram_set, vm_cpu_set>>
              ELSE IF is_running(c.vm, enabled_state)
              THEN /\ ends_early(t, "start", Ok, TRUE)
                   /\ UNCHANGED <<vm_ram_set, vm_cpu_set>>
              ELSE IF c.vm = NoVm \/ ~ram_ok
              THEN /\ ends_early(t, "start", Error("GNS3VMError", "", <<"Could not set">>), FALSE)
                   /\ UNCHANGED <<vm_ram_set, vm_cpu_set>>
              ELSE IF ~vcpus_ok
              THEN /\ ends_early(t, "start", Error("GNS3VMError", "", <<"too many vCPUs">>), FALSE)
                   /\ vm_ram_set' = TRUE
                   /\ UNCHANGED vm_cpu_set
              ELSE IF ~cpu_ok
              THEN /\ ends_early(t, "start", Error("GNS3VMError", "", <<"Could not set">>), FALSE)
                   /\ vm_ram_set' = TRUE
                   /\ UNCHANGED vm_cpu_set
              ELSE /\ vm_ram_set' = TRUE
                   /\ vm_cpu_set' = TRUE
                   /\ set_state(t, "start", r, js)
    /\ UNCHANGED nb_vms

(***************************************************************************)
(* start(): from the call to its first sleep or its end.                   *)
(*   req_ok, wmi_ok, perm_ok: what _connect meets (when it is run)         *)
(*   vcpus_ok: self.vcpus fits the physical core count                     *)
(*   ram_ok, cpu_ok: the two ModifyResourceSettings calls go through       *)
(***************************************************************************)
start(t, req_ok, wmi_ok, perm_ok, vcpus_ok, ram_ok, cpu_ok, r, js) ==
    /\ pc[t] = "idle"
    /\ task_op' = [task_op EXCEPT ![t] = "start"]
    /\ LET c == IF conn
                THEN [conn |-> conn, management |-> management, vm |-> vm, error |-> Ok]
                ELSE connect(req_ok, wmi_ok, perm_ok)
       IN  /\ conn' = c.conn
           /\ management' = c.management
           /\ vm' = c.vm
           /\ IF c.error.status = "error"
              THEN /\ ends_early(t, "start", c.error, FALSE)
                   /\ UNCHANGED <<vm_ram_set, vm_cpu_set>>
              ELSE IF is_running(c.vm, enabled_state)
              THEN /\ ends_early(t, "start", Ok, TRUE)
                   /\ UNCHANGED <<vm_ram_set, vm_cpu_set>>
              ELSE IF ~vcpus_ok
              THEN \* _set_vcpus_ram, line 119
                   /\ ends_early(t, "start", Error("GNS3VMError", "", <<"too many vCPUs">>), FALSE)
                   /\ UNCHANGED <<vm_ram_set, vm_cpu_set>>
              ELSE IF c.vm = NoVm \/ ~ram_ok
              THEN \* lines 122-129 raise, line 139 turns it into GNS3VMError
                   /\ ends_early(t, "start", Error("GNS3VMError", "", <<"Could not set">>), FALSE)
                   /\ UNCHANGED <<vm_ram_set, vm_cpu_set>>
              ELSE IF ~cpu_ok
              THEN /\ ends_early(t, "start", Error("GNS3VMError", "", <<"Could not set">>), FALSE)
                   /\ vm_ram_set' = TRUE
                   /\ UNCHANGED vm_cpu_set
              ELSE /\ vm_ram_set' = TRUE
                   /\ vm_cpu_set' = TRUE
                   /\ set_state(t, "start", r, js)
    /\ UNCHANGED nb_vms

(***************************************************************************)
(* suspend() and stop(): from the call to its first sleep or its end.      *)
(***************************************************************************)
suspend_or_stop(t, o, req_ok, wmi_ok, perm_ok, r, js) ==
    /\ pc[t] = "idle"
    /\ task_op' = [task_op EXCEPT ![t] = o]
    /\ LET c == IF conn
                THEN [conn |-> conn, management |-> management, vm |-> vm, error |-> Ok]
                ELSE connect(req_ok, wmi_ok, perm_ok)
       IN  /\ conn' = c.conn
           /\ management' = c.management
           /\ vm' = c.vm
           /\ IF c.error.status = "error"
              THEN ends_early(t, o, c.error, FALSE)
              ELSE IF c.vm = NoVm
              THEN \* None.RequestStateChange: not a GNS3VMError, so not wrapped
                   ends_early(t, o, Error("AttributeError", "", <<"NoneType">>), FALSE)
              ELSE set_state(t, o, r, js)
    /\ UNCHANGED <<nb_vms, vm_ram_set, vm_cpu_set>>

suspend(t, req_ok, wmi_ok, perm_ok, r, js) ==
    suspend_or_stop(t, "suspend", req_ok, wmi_ok, perm_ok, r, js)

stop(t, req_ok, wmi_ok, perm_ok, r, js) ==
    suspend_or_stop(t, "stop", req_ok, wmi_ok, perm_ok, r, js)

\* a loop that gives up after one sleep: the call ends whatever the job shows
wake_gives_up(t) ==
    /\ pc[t] = "sleep"
    /\ LET js == job_state[t]
       IN  /\ reads' = [reads EXCEPT ![t] = @ + 1]
           /\ running_reads' = [running_reads EXCEPT ![t] =
                                  IF js = WMI_JOB_STATE_RUNNING THEN @ + 1 ELSE @]
           /\ UNCHANGED sleeps
           /\ Finish(t, task_op[t],
                     IF JobError(js) # <<>> THEN Wrapped(task_op[t], JobError(js)) ELSE Ok,
                     Confirms(task_op[t], ret[t], js), FALSE)
    /\ UNCHANGED <<conn, management, vm, task_op, ret, nb_vms, enabled_state, job_state,
                   vm_ram_set, vm_cpu_set>>

(***************************************************************************)
(* The sleep of task t ends: lines 173-176, the job is read again.         *)
(***************************************************************************)
wake(t) ==
    /\ pc[t] = "sleep"
    /\ LET js == job_state[t]
       IN  /\ reads' = [reads EXCEPT ![t] = @ + 1]
           /\ running_reads' = [running_reads EXCEPT ![t] =
                                  IF js = WMI_JOB_STATE_RUNNING THEN @ + 1 ELSE @]
           /\ IF PollsAgain(js)
              THEN /\ sleeps' = [sleeps EXCEPT ![t] = @ + 1]
                   /\ UNCHANGED <<pc, result, running, enable_confirmed, seen_enabled>>
              ELSE /\ UNCHANGED sleeps
                   /\ Finish(t, task_op[t],
                             IF JobError(js) # <<>> THEN Wrapped(task_op[t], JobError(js)) ELSE Ok,
                             Confirms(task_op[t], ret[t], js), FALSE)
    /\ UNCHANGED <<conn, management, vm, task_op, ret, nb_vms, enabled_state, job_state,
                   vm_ram_set, vm_cpu_set>>

(***************************************************************************)
(* Hyper-V: the running job of task t ends, completed or with an error.    *)
(***************************************************************************)
JobEnds(t, js) ==
    /\ pc[t] = "sleep"
    /\ job_state[t] = WMI_JOB_STATE_RUNNING
    /\ js # WMI_JOB_STATE_RUNNING
    /\ job_state' = [job_state EXCEPT ![t] = js]
    /\ enabled_state' = IF js = WMI_JOB_STATE_COMPLETED THEN TargetState(task_op[t])
                        ELSE enabled_state
    /\ UNCHANGED <<conn, management, vm, running, pc, task_op, ret, reads, sleeps, result,
                   nb_vms, vm_ram_set, vm_cpu_set, running_reads, enable_confirmed,
                   seen_enabled>>

(***************************************************************************)
(* Specification of the VM controller: two callers run start, suspend and  *)
(* stop against a Hyper-V that holds zero, one or two VMs of the name.     *)
(***************************************************************************)
InitVM ==
    /\ InitModule
    /\ InitPoolHistory
    /\ os_busy_tcp = {}
    /\ os_busy_udp = {}
    /\ InitDevices(0, NoCaps)
    /\ InitController
    /\ \E n \in 0..2, state \in {HYPERV_VM_STATE_ENABLED, HYPERV_VM_STATE_DISABLED} :
          InitHyperV(n, state)

\* Hyper-V may show a job running only MaxPolls times in a row
MayRead(t) == job_state[t] = WMI_JOB_STATE_RUNNING => running_reads[t] < MaxPolls

\* what _connect can meet: one of its three checks fails, or none does
ConnectInputs ==
    IF conn THEN {<<TRUE, TRUE, TRUE>>}
    ELSE {<<FALSE, TRUE, TRUE>>, <<TRUE, FALSE, TRUE>>, <<TRUE, TRUE, FALSE>>,
          <<TRUE, TRUE, TRUE>>}

\* what _set_vcpus_ram can meet
ResourceInputs ==
    {<<FALSE, TRUE, TRUE>>, <<TRUE, FALSE, TRUE>>, <<TRUE, TRUE, FALSE>>,
     <<TRUE, TRUE, TRUE>>}

\* what Hyper-V can answer to RequestStateChange: a return code and, when
\* the code is "job started", the state the job is first seen in
Answers ==
    {<<r, WMI_JOB_STATE_COMPLETED>> : r \in Rets \ {WMI_JOB_STATUS_STARTED}}
    \cup {<<WMI_JOB_STATUS_STARTED, js>> : js \in JobStates}

NextVM ==
  /\ UNCHANGED <<poolVars, reset_deleted, devVars>>
  /\
    \/ \E t \in Tasks, c \in ConnectInputs, v \in ResourceInputs, a \in Answers :
          /\ (v # <<TRUE, TRUE, TRUE>> => a = <<RET_COMPLETED, WMI_JOB_STATE_COMPLETED>>)
          /\ (a[2] = WMI_JOB_STATE_RUNNING => MaxPolls > 0)
          /\ start(t, c[1], c[2], c[3], v[1], v[2], v[3], a[1], a[2])
    \/ \E t \in Tasks, c \in ConnectInputs, a \in Answers :
          /\ (a[2] = WMI_JOB_STATE_RUNNING => MaxPolls > 0)
          /\ suspend(t, c[1], c[2], c[3], a[1], a[2])
    \/ \E t \in Tasks, c \in ConnectInputs, a \in Answers :
          /\ (a[2] = WMI_JOB_STATE_RUNNING => MaxPolls > 0)
          /\ stop(t, c[1], c[2], c[3], a[1], a[2])
    \/ \E t \in Tasks : MayRead(t) /\ wake(t)
    \/ \E t \in Tasks, js \in JobStates : JobEnds(t, js)

SpecVM == InitVM /\ [][NextVM]_vars

(***************************************************************************)
(* Specification of the registry and its console pool: create, delete,     *)
(* reset and settings requests that set the console range, with other      *)
(* processes taking and freeing TCP ports.                                 *)
(***************************************************************************)
SmallConsoleEnd == DefaultConsoleStart + RangeLen - 1

SmallConsoleRanges ==
    {<<DefaultConsoleStart, SmallConsoleEnd>>, <<DefaultConsoleStart + 1, SmallConsoleEnd>>}

ConsoleRangeRequests ==
    {[working_dir |-> ProjectsDir,
      console_start_port_range |-> r[1], console_end_port_range |-> r[2]] :
        r \in SmallConsoleRanges \cup {<<DefaultConsoleStart, DefaultConsoleEnd>>}}

InitPool ==
    /\ InitModule
    /\ InitPoolHistory
    /\ InitDevices(0, NoCaps)
    /\ InitController
    /\ InitHyperV(1, HYPERV_VM_STATE_DISABLED)
    /\ os_busy_tcp = {}
    /\ os_busy_udp = {}

NextConsole ==
  /\ UNCHANGED <<devVars, vmVars>>
  /\
    \/ reset
    \/ /\ UNCHANGED reset_deleted
       /\
         \/ \E p \in OsTcpPorts : OsBindTcp(p)
         \/ (next_id <= MaxId /\ \E mkdir_ok \in BOOLEAN : VPCS_create(DefaultPath, mkdir_ok))
         \/ \E id \in 1..MaxId : VPCS_delete(id)
         \/ \E request \in ConsoleRangeRequests : settings(request, TRUE, TRUE)

SpecConsole == InitPool /\ [][NextConsole]_vars

(***************************************************************************)
(* Specification of the UDP pool: a few devices allocate UDP ports while   *)
(* settings requests set the UDP range and other processes take and free   *)
(* UDP ports.                                                              *)
(***************************************************************************)
SmallUdpEnd == DefaultUdpStart + RangeLen - 1

SmallUdpRanges ==
    {<<DefaultUdpStart, SmallUdpEnd>>, <<DefaultUdpStart + 1, SmallUdpEnd>>}

UdpRangeRequests ==
    {[working_dir |-> ProjectsDir,
      udp_start_port_range |-> r[1], udp_end_port_range |-> r[2]] :
        r \in SmallUdpRanges \cup {<<DefaultUdpStart, DefaultUdpEnd>>}}

NextUdp ==
  /\ UNCHANGED <<devVars, vmVars>>
  /\
    \/ reset
    \/ /\ UNCHANGED reset_deleted
       /\
         \/ \E p \in OsUdpPorts : OsBindUdp(p)
         \/ (next_id <= MaxUdpDevices /\ VPCS_create(DefaultPath, TRUE))
         \/ \E id \in 1..MaxUdpDevices : VPCS_delete(id)
         \/ \E request \in UdpRangeRequests : settings(request, TRUE, TRUE)
         \/ \E id \in 1..(MaxUdpDevices + 1) :
               /\ Len(udp_log) < MaxUdpAllocs
               /\ current_udp_port < DefaultUdpStart + MaxUdpAllocs
               /\ allocate_udp_port(id)

SpecUdp == InitPool /\ [][NextUdp]_vars

(***************************************************************************)
(* Claims on the port pools and the registry.                              *)
(***************************************************************************)
InRange(log, first, last) == \A i \in DOMAIN log : first <= log[i] /\ log[i] <= last

\* C1: the ports returned by successive allocations on one pool, with no
\* release in between and the range unchanged, are pairwise distinct and lie
\* within [start,end] of the pool, whatever ports the OS holds.
C1_PortUniqueness ==
    ~released =>
        /\ NoDup(console_log)
        /\ InRange(console_log, console_start_port_range, console_end_port_range)
        /\ NoDup(udp_log)
        /\ InRange(udp_log, udp_start_port_range, udp_end_port_range)

\* C2: any two distinct instances of the registry hold different console
\* ports.
C2_ConsoleUnique ==
    \A i, j \in DOMAIN VPCS_instances :
        i # j => VPCS_instances[i].console # VPCS_instances[j].console

\* the pool is the small range start..start+RangeLen-1 (4001..4003), its log
\* began with the cursor at start, and no port of it was OS-busy since
FreshSmallConsolePool ==
    /\ console_fresh
    /\ console_start_port_range = DefaultConsoleStart
    /\ console_end_port_range = SmallConsoleEnd

\* C3: on the fresh range 4001..4003 with nothing busy at OS level, the
\* console allocations return 4001, 4002, 4003 in that order, and the one
\* after them (the cursor has passed the end) does not fail but returns 4001.
C3_Wraparound ==
    FreshSmallConsolePool =>
        /\ \A i \in DOMAIN console_log :
              console_log[i] = DefaultConsoleStart + ((i - 1) % RangeLen)
        /\ ~(reply.op = "create" /\ reply.status = "noport")

\* the fourth allocation returned 4001 after the instance that held 4001 was
\* deleted
C3_Witness ==
    /\ FreshSmallConsolePool
    /\ released
    /\ Len(console_log) = RangeLen + 1
    /\ console_log[RangeLen + 1] = DefaultConsoleStart
    /\ reply = Reply("create", RangeLen + 1, "ok", DefaultConsoleStart)
    /\ 1 \notin DOMAIN VPCS_instances
    /\ \A i \in DOMAIN VPCS_instances :
          VPCS_instances[i].console = DefaultConsoleStart <=> i = RangeLen + 1

\* the registry is as VPCS.reset leaves it
Pristine ==
    /\ VPCS_instances = <<>>
    /\ next_id = 1
    /\ current_console_port = console_start_port_range
    /\ current_udp_port = udp_start_port_range

C14_RangeReconfiguration ==
    /\ InRange(console_log, console_start_port_range, console_end_port_range)
    /\ InRange(udp_log, udp_start_port_range, udp_end_port_range)

(***************************************************************************)
(* Claims on the VM controller.                                            *)
(***************************************************************************)
\* C4: running is true only if a transition of the VM to the enabled state
\* was confirmed completed (an immediate success or a job that ended
\* completed), never on acceptance of a request or while a job is running.
C4_RunningOnlyAfterTransition == running => enable_confirmed

\* C4, amended: running is true only if such a transition was confirmed, or
\* start found the VM already enabled and made no request.
C4_RunningOnlyIfEnabledConfirmed == running => (enable_confirmed \/ seen_enabled)

\* a start that slept on its job and saw it completed has set the flag
C4_Witness ==
    /\ running
    /\ enable_confirmed
    /\ ~seen_enabled
    /\ \E t \in Tasks :
          /\ task_op[t] = "start"
          /\ pc[t] = "idle"
          /\ sleeps[t] > 0
          /\ result[t] = Ok

\* C5: with a pending job, the job is read again after each sleep while it
\* is running: k running reads give k sleeps and k+1 reads; the call
\* succeeds if the job ended completed and else fails with the error that
\* names the action and carries the job's error description.
C5_JobPolling ==
    \A t \in Tasks :
        ret[t] = WMI_JOB_STATUS_STARTED =>
            /\ sleeps[t] = running_reads[t]
            /\ pc[t] = "sleep" => reads[t] = running_reads[t]
            /\ pc[t] = "idle" =>
                  /\ reads[t] = running_reads[t] + 1
                  /\ job_state[t] # WMI_JOB_STATE_RUNNING
                  /\ job_state[t] = WMI_JOB_STATE_COMPLETED => result[t] = Ok
                  /\ job_state[t] # WMI_JOB_STATE_COMPLETED =>
                        result[t] = Error("GNS3VMError", task_op[t],
                                          <<"Error while changing state">>
                                             \o ErrorSummaryDescription(job_state[t]))

\* a start whose job was running on MaxPolls reads and then completed
C5_Witness ==
    \E t \in Tasks :
        /\ task_op[t] = "start"
        /\ pc[t] = "idle"
        /\ ret[t] = WMI_JOB_STATUS_STARTED
        /\ running_reads[t] = MaxPolls
        /\ sleeps[t] = MaxPolls
        /\ reads[t] = MaxPolls + 1
        /\ result[t] = Ok

\* C6: an immediate terminal result decides the call without polling: the
\* success code 0 makes start, suspend and stop succeed, and only a failure
\* code makes them fail.
C6_ImmediateResult ==
    \A t \in Tasks :
        (pc[t] = "idle" /\ ret[t] # NoRet /\ ret[t] # WMI_JOB_STATUS_STARTED) =>
            /\ reads[t] = 0
            /\ sleeps[t] = 0
            /\ (ret[t] = RET_COMPLETED <=> result[t] = Ok)

\* C7: with more than one VM of the configured name no handle is selected,
\* every call of start, suspend and stop ends with an error, none makes a
\* transition request, and running never becomes true.
C7_DuplicateFatal ==
    nb_vms > 1 =>
        /\ vm = NoVm
        /\ ~running
        /\ ~vm_ram_set /\ ~vm_cpu_set
        /\ \A t \in Tasks :
              /\ pc[t] = "idle"
              /\ ret[t] = NoRet
              /\ result[t].status # "ok"
              /\ task_op[t] # "none" => result[t].status = "error"

\* the first call met the duplicate in find; a later suspend failed as well
C7_Witness ==
    /\ nb_vms > 1
    /\ conn
    /\ result["t1"] = Error("GNS3VMError", "", <<"Duplicate VM name found">>)
    /\ task_op["t2"] = "suspend"
    /\ result["t2"].status = "error"


\* C16: VM operation failures are uniformly wrapped.  Whenever start, suspend
\* or stop fails, at whichever step (lazy connect, VM lookup finding no VM,
\* resource configuration, transition request or job completion), the caller
\* receives a GNS3VMError whose message names the attempted action; no other
\* kind of error leaves these operations.
C16_FailuresWrapped ==
    \A t \in Tasks :
        result[t].status = "error" =>
            /\ result[t].type = "GNS3VMError"
            /\ result[t].action = task_op[t]

\* the step leaves every task other than t where it was
OthersIdleNow(t) ==
    \A u \in Tasks \ {t} :
        /\ pc'[u] = pc[u] /\ task_op'[u] = task_op[u] /\ ret'[u] = ret[u]
        /\ result'[u] = result[u] /\ reads'[u] = reads[u] /\ sleeps'[u] = sleeps[u]

\* the step is one of task t after which its call has ended
EndsNow(t) ==
    /\ pc'[t] = "idle"
    /\ result'[t].status # "none"
    /\ OthersIdleNow(t)

\* Hyper-V confirmed the transition the call of task t asked for: an immediate
\* successful result or a job that ended completed
TransitionConfirmedNow(t) ==
    \/ ret'[t] = RET_COMPLETED
    \/ ret'[t] = WMI_JOB_STATUS_STARTED /\ job_state'[t] = WMI_JOB_STATE_COMPLETED

\* start found the VM enabled and asked for no transition
FoundEnabledNow(t) == task_op'[t] = "start" /\ ret'[t] = NoRet

\* t is the only call that can have ended in this step
OnlyEnderNow(t) == EndsNow(t) /\ \A u \in Tasks \ {t} : ~EndsNow(u)

\* C17 as stated: the running flag changes only on confirmed success.  A
\* start, suspend or stop call that fails at any step leaves the flag at the
\* value it had; the flag becomes false only after a suspend or stop
\* transition has been confirmed and true only after a start transition has
\* been confirmed.
C17_FlagOnlyOnConfirmedSuccess ==
    [][ /\ \A t \in Tasks :
              (OnlyEnderNow(t) /\ result'[t].status = "error") => running' = running
        /\ running' # running =>
              \E t \in Tasks :
                  /\ EndsNow(t) /\ result'[t].status = "ok"
                  /\ TransitionConfirmedNow(t)
                  /\ running' = (task_op'[t] = "start") ]_vars

\* C17 amended: the same, where the flag also becomes true when start finds
\* the VM already enabled and therefore asks for no transition.
C17_FlagOnlySuccessOrFoundEnabled ==
    [][ /\ \A t \in Tasks :
              (OnlyEnderNow(t) /\ result'[t].status = "error") => running' = running
        /\ running' # running =>
              \E t \in Tasks :
                  /\ EndsNow(t) /\ result'[t].status = "ok"
                  /\ TransitionConfirmedNow(t) \/ FoundEnabledNow(t)
                  /\ running' = (task_op'[t] = "start") ]_vars

\* a stop whose job ended with an error has left the flag true
C17_Witness ==
    /\ running
    /\ \E t \in Tasks :
          /\ pc[t] = "idle" /\ task_op[t] = "stop"
          /\ result[t].status = "error"
          /\ ret[t] = WMI_JOB_STATUS_STARTED
          /\ job_state[t] = WMI_JOB_STATE_EXCEPTION
          /\ sleeps[t] > 0

\* C18: per-VM mutual exclusion.  No two of start, suspend and stop are in
\* progress at the same time: while one call is suspended in its job-polling
\* sleep, no other call issues a transition request or writes the running
\* flag.
C18_MutualExclusion ==
    /\ [](\A t, u \in Tasks : (pc[t] = "sleep" /\ pc[u] = "sleep") => t = u)
    /\ [][\A t \in Tasks :
              (pc[t] = "sleep" /\ pc'[t] = "sleep") =>
                  /\ running' = running
                  /\ \A u \in Tasks \ {t} : ret'[u] = ret[u] /\ task_op'[u] = task_op[u]]_vars

(***************************************************************************)
(*        Specifications of the device-level handlers of the module        *)
(***************************************************************************)
MaxDevices == 2
MaxUpdDevices == 1

\* security.capability values: VFS_CAP_REVISION_2 with CAP_NET_RAW permitted,
\* with CAP_NET_ADMIN only, with CAP_NET_RAW inheritable only, and a
\* VFS_CAP_REVISION_1 value (three words) with CAP_NET_RAW permitted
CapsData ==
    { <<1,0,0,2, 0,32,0,0, 0,0,0,0, 0,0,0,0, 0,0,0,0>>,
      <<1,0,0,2, 0,16,0,0, 0,0,0,0, 0,0,0,0, 0,0,0,0>>,
      <<1,0,0,2, 0,0,0,0, 0,32,0,0, 0,0,0,0, 0,0,0,0>>,
      <<0,0,0,1, 0,32,0,0, 0,0,0,0>> }

CapsStates ==
    {NoCaps}
      \cup {[present |-> TRUE, readable |-> FALSE, data |-> <<>>]}
      \cup {[present |-> TRUE, readable |-> TRUE, data |-> d] : d \in CapsData}

InitDev(uids, capsStates) ==
    /\ InitModule
    /\ InitPoolHistory
    /\ os_busy_tcp = {}
    /\ os_busy_udp = {}
    /\ \E uid \in uids, caps \in capsStates : InitDevices(uid, caps)
    /\ InitController
    /\ InitHyperV(1, HYPERV_VM_STATE_DISABLED)

-----------------------------------------------------------------------------
NioTypes == {"nio_udp", "nio_tap", "nio_vde"}

InitNio == InitDev({RootUid, RootUid + 1000}, CapsStates)

NextNio ==
  /\ UNCHANGED <<vmVars, reset_deleted>>
  /\
    \/ /\ next_id <= MaxDevices
       /\ VPCS_create(DefaultPath, TRUE)
       /\ UNCHANGED devVars
    \/ \E id \in 1..MaxDevices : VPCS_delete(id) /\ UNCHANGED devVars
    \/ \E id \in 1..MaxDevices, type \in NioTypes : add_nio(id, type, 0, 0)
    \/ \E id \in 1..MaxDevices : delete_nio(id, 0, 0)

SpecNio == InitNio /\ [][NextNio]_vars

-----------------------------------------------------------------------------
InitSup == InitDev({RootUid}, {NoCaps})

NextSup ==
  /\ UNCHANGED <<vmVars, reset_deleted>>
  /\
    \/ /\ next_id <= MaxDevices
       /\ VPCS_create(DefaultPath, TRUE)
       /\ UNCHANGED devVars
    \/ \E id \in 1..MaxDevices : VPCS_delete(id) /\ UNCHANGED devVars
    \/ \E id \in 1..MaxDevices, spawn_ok \in BOOLEAN : vm_start(id, spawn_ok)
    \/ \E id \in 1..MaxDevices : vm_stop(id)
    \/ \E id \in 1..MaxDevices : ProcessDies(id)
    \/ \E id \in 1..MaxDevices : BackendHangs(id)
    \/ check_VPCS_is_alive

SpecSup == InitSup /\ [][NextSup]_vars

-----------------------------------------------------------------------------
UpdateFields == {"name", "console", "startup_config", "startup_config_base64", "foo"}

\* a VPCS.update request for instance id carrying the fields of S
UpdateRequest(id, S) ==
    [f \in S \cup {"id"} |->
       CASE f = "id" -> id
         [] f = "name" -> <<"PC", 0>>
         [] f = "console" -> DefaultConsoleStart + 1
         [] f = "startup_config" -> <<"my.vpc">>
         [] f = "startup_config_base64" -> <<"c2V0IHBjbmFtZSAlaAo=">>
         [] f = "foo" -> 1]

UpdateRequests(id) == {UpdateRequest(id, S) : S \in SUBSET UpdateFields}

InitUpdate == InitDev({RootUid}, {NoCaps})

NextUpdate ==
  /\ UNCHANGED <<vmVars, reset_deleted>>
  /\
    \/ /\ next_id <= MaxUpdDevices
       /\ VPCS_create(DefaultPath, TRUE)
       /\ UNCHANGED devVars
    \/ \E id \in 1..MaxUpdDevices + 1 :
          \E request \in UpdateRequests(id), write_ok \in BOOLEAN :
             /\ ~Has(request, "startup_config_base64") => write_ok
             /\ id \notin DOMAIN VPCS_instances => DOMAIN request = {"id"}
             /\ VPCS_update(id, request, write_ok)

SpecUpdate == InitUpdate /\ [][NextUpdate]_vars


(***************************************************************************)
(* C8: TAP privilege gate.  The capability check for a TAP NIO passes when *)
(* the process is root, or when the binary's capability data is readable   *)
(* and has the CAP_NET_RAW bit set; in every other case of an unprivileged *)
(* process (attribute absent, bit clear, data unreadable or undecodable)   *)
(* add_nio fails with the access error and no TAP NIO is bound.            *)
(***************************************************************************)
\* the capability data can be read and decoded and shows CAP_NET_RAW
CapsShowNetRaw ==
    /\ vpcs_caps.present
    /\ vpcs_caps.readable
    /\ Len(vpcs_caps.data) >= 8
    /\ BitSet(Word(vpcs_caps.data, 1), CAP_NET_RAW)

GateShouldPass == euid = RootUid \/ CapsShowNetRaw

HasTap(inst) == \E b \in DOMAIN inst.nios : inst.nios[b].type = "nio_tap"

C8_TapGate ==
    /\ (reply.op = "add_nio" /\ reply.nio = "nio_tap" /\ reply.status # "notfound")
          => (reply.status = "noaccess" <=> ~GateShouldPass)
    /\ ~GateShouldPass => \A i \in DOMAIN VPCS_instances : ~HasTap(VPCS_instances[i])

(***************************************************************************)
(* C9: supervision detection.  In one run of the periodic check over the   *)
(* registry, exactly one notification is sent for each instance that was   *)
(* started and whose is_running() or is_VPCS_running() probe is false      *)
(* (also when both are false), stop() is called on exactly those           *)
(* instances, and nothing is sent or stopped for the other instances.      *)
(***************************************************************************)
C9_SupervisionDetection ==
    /\ DOMAIN notifications = DOMAIN tick_seen
    /\ \A i \in DOMAIN tick_seen :
          LET seen == tick_seen[i]
              down == seen.started /\ (~seen.running \/ ~seen.vpcs_running)
          IN  /\ notifications[i] = (IF down THEN 1 ELSE 0)
              /\ i \in tick_stops <=> down

\* a run of the check that met an instance with both probes false and an
\* instance that was running well
C9_Witness ==
    \E i, j \in DOMAIN tick_seen :
        /\ tick_seen[i].started /\ ~tick_seen[i].running /\ ~tick_seen[i].vpcs_running
        /\ notifications[i] = 1
        /\ i \in tick_stops
        /\ i \in DOMAIN VPCS_instances /\ ~VPCS_instances[i].started
        /\ tick_seen[j].started /\ tick_seen[j].running /\ tick_seen[j].vpcs_running
        /\ notifications[j] = 0
        /\ j \notin tick_stops

(***************************************************************************)
(* C10: VPCS.update tolerant merge.                                        *)
(***************************************************************************)
\* the last request handled was an update of an existing instance
Updated(i) ==
    /\ reply.op = "update" /\ reply.id = i /\ reply.status # "notfound"
    /\ i \in DOMAIN VPCS_instances

\* the fields of request the instance has with a value other than its own
Differing(i, request, inst) ==
    {f \in DOMAIN request : HasAttr(f) /\ request[f] # GetAttr(i, inst, f)}

\* the update of instance i merged request: it reported and set exactly the
\* differing fields and left the rest of the instance alone
Merged(i, request) ==
    LET want == Differing(i, request, upd_before)
        now == VPCS_instances[i]
    IN  /\ reply.status = "ok"
        /\ DOMAIN response = want
        /\ \A f \in want : response[f] = request[f] /\ GetAttr(i, now, f) = request[f]
        /\ \A f \in DOMAIN now \ want : now[f] = upd_before[f]
        /\ Differing(i, request, now) = {}

MaxRegDevices == 1

InitRegistry == InitDev({RootUid}, {NoCaps})

NextRegistry ==
  /\ UNCHANGED <<vmVars, reset_deleted>>
  /\
    \/ /\ UNCHANGED devVars
       /\
         \/ /\ next_id <= MaxRegDevices
            /\ VPCS_create(DefaultPath, TRUE)
         \/ \E id \in 1..MaxRegDevices + 1 : VPCS_delete(id)
         \/ \E id \in 1..MaxRegDevices + 1 :
               /\ current_udp_port < DefaultUdpStart + MaxUdpAllocs
               /\ allocate_udp_port(id)
    \/ \E id \in 1..MaxRegDevices + 1 : VPCS_update(id, UpdateRequest(id, {"name"}), TRUE)
    \/ \E id \in 1..MaxRegDevices + 1 : vm_start(id, TRUE)
    \/ \E id \in 1..MaxRegDevices + 1 : vm_stop(id)
    \/ \E id \in 1..MaxRegDevices + 1 : vm_reload(id, TRUE)
    \/ \E id \in 1..MaxRegDevices + 1 : add_nio(id, "nio_udp", 0, 0)
    \/ \E id \in 1..MaxRegDevices + 1 : delete_nio(id, 0, 0)

SpecRegistry == InitRegistry /\ [][NextRegistry]_vars

(***************************************************************************)
(* Specification of start, stop and reload: devices are created with the   *)
(* binary path of their request, settings requests change the path of the  *)
(* module, and the process of a started device may die.                    *)
(***************************************************************************)
RequestPaths == {DefaultPath, <<"vpcs-0.5">>}

PathRequests == {[working_dir |-> ProjectsDir, VPCS |-> path] : path \in RequestPaths}

InitReload == InitDev({RootUid}, {NoCaps})

NextReload ==
  /\ UNCHANGED <<vmVars, reset_deleted>>
  /\
    \/ /\ UNCHANGED devVars
       /\
         \/ /\ next_id <= MaxDevices
            /\ \E path \in RequestPaths : VPCS_create(path, TRUE)
         \/ \E request \in PathRequests : settings(request, TRUE, TRUE)
    \/ \E id \in 1..MaxDevices, spawn_ok \in BOOLEAN : vm_start(id, spawn_ok)
    \/ \E id \in 1..MaxDevices : vm_stop(id)
    \/ \E id \in 1..MaxDevices, spawn_ok \in BOOLEAN : vm_reload(id, spawn_ok)
    \/ \E id \in 1..MaxDevices : ProcessDies(id)

SpecReload == InitReload /\ [][NextReload]_vars

\* the handlers that look an instance up by the id of the request
ByIdOps == {"delete", "update", "start", "stop", "reload", "allocate_udp_port",
            "add_nio", "delete_nio"}

\* C12: unknown-id operations have no side effects.  VPCS.delete, update,
\* start, stop, reload, allocate_udp_port, add_nio and delete_nio called with
\* an id that is not in the registry report that the instance does not exist
\* and leave the registry, every instance and both port cursors as they were
\* (allocate_udp_port neither advances nor wraps the UDP cursor).
C12_UnknownIdNoSideEffects ==
    [][ /\ (reply' # reply /\ reply'.op \in ByIdOps
               /\ reply'.id \notin DOMAIN VPCS_instances)
            => reply'.status = "notfound"
        /\ reply'.status = "notfound"
            => UNCHANGED <<VPCS_instances, next_id, current_console_port,
                           current_udp_port>> ]_vars

\* allocate_udp_port was refused for an unknown id while an instance exists
\* and the UDP cursor stands past the start of its range
C12_Witness ==
    /\ reply = Reply("allocate_udp_port", MaxRegDevices + 1, "notfound", NoPort)
    /\ VPCS_instances # <<>>
    /\ current_udp_port > udp_start_port_range

\* C20: VPCS.reload is stop-then-start with the configuration VPCS.start uses.
\* A successful reload leaves the instance started and running with the binary
\* path of the module, as stop followed by VPCS.start would; a reload whose
\* start fails leaves the instance stopped.
C20_ReloadAsStopStart ==
    \A i \in DOMAIN VPCS_instances :
        (reply.op = "reload" /\ reply.id = i) =>
            IF reply.status = "ok"
            THEN /\ VPCS_instances[i].started /\ VPCS_instances[i].running
                 /\ VPCS_instances[i].VPCS = VPCS_path
            ELSE ~VPCS_instances[i].running


(***************************************************************************)
(* Specification of the console pool when ports run out: the console range *)
(* is set to start..start+RangeLen-1 and other processes take and free any *)
(* port of it, while devices are created and deleted.                      *)
(***************************************************************************)
ExhaustPorts == DefaultConsoleStart..SmallConsoleEnd

ExhaustRangeRequest ==
    [working_dir |-> ProjectsDir,
     console_start_port_range |-> DefaultConsoleStart,
     console_end_port_range |-> SmallConsoleEnd]

NextExhaust ==
  /\ UNCHANGED <<devVars, vmVars, reset_deleted>>
  /\
    \/ \E p \in ExhaustPorts : OsBindTcp(p)
    \/ (next_id <= MaxId /\ VPCS_create(DefaultPath, TRUE))
    \/ \E id \in 1..MaxId : VPCS_delete(id)
    \/ settings(ExhaustRangeRequest, TRUE, TRUE)

SpecExhaust == InitPool /\ [][NextExhaust]_vars

\* the step is a VPCS.create that failed for want of a console port
CreateFailsNoPort ==
    reply' # reply /\ reply'.op = "create" /\ reply'.status = "noport"

\* C13: a failed VPCS.create leaks nothing.  When VPCS.create fails because
\* no console port is available, the registry, the console cursor and the
\* instance id counter are the same as before the call: no instance object
\* has been constructed and no cursor has been moved or wrapped.
C13_FailedCreateLeaksNothing ==
    [][CreateFailsNoPort =>
          UNCHANGED <<VPCS_instances, current_console_port, next_id>>]_vars

\* port p is eligible: no process has it bound and no instance holds it
Eligible(p) ==
    /\ p \notin os_busy_tcp
    /\ \A i \in DOMAIN VPCS_instances : VPCS_instances[i].console # p

\* C15: exhaustion means a full pass.  A console allocation fails for want of
\* a port only if no port of the whole configured range [start,end] is
\* eligible; whenever a port of the range is eligible, also one below the
\* cursor, the allocation returns a port.
C15_ExhaustionIsFullPass ==
    [][CreateFailsNoPort =>
          \A p \in console_start_port_range..console_end_port_range : ~Eligible(p)]_vars


-----------------------------------------------------------------------------
(***************************************************************************)
(* The periodic check with device calls that can fail.                     *)
(***************************************************************************)
InitTick == InitDev({RootUid}, {NoCaps})

NextTick ==
  /\ UNCHANGED <<vmVars, reset_deleted>>
  /\
    \/ /\ next_id <= MaxDevices
       /\ VPCS_create(DefaultPath, TRUE)
       /\ UNCHANGED devVars
    \/ \E id \in 1..MaxDevices : vm_start(id, TRUE)
    \/ \E id \in 1..MaxDevices : ProcessDies(id)
    \/ \E id \in 1..MaxDevices : BackendHangs(id)
    \/ check_VPCS_is_alive
    \/ \E id \in 1..MaxDevices, call \in TickCalls : check_VPCS_is_alive_raises(id, call)

SpecTick == InitTick /\ [][NextTick]_vars

\* C19: the health supervisor never raises.  If a liveness probe, the
\* diagnostic read or the forced stop() of one instance fails during a run of
\* the periodic check, the instance is treated as not alive and notified, the
\* error does not leave the run, and the remaining instances of the registry
\* are still checked in the same run.
C19_SupervisorNeverRaises ==
    /\ ~tick_raised
    /\ tick_failed # 0 =>
          /\ tick_failed \in DOMAIN notifications
          /\ notifications[tick_failed] = 1
    /\ DOMAIN notifications = tick_registry


-----------------------------------------------------------------------------
(***************************************************************************)
(* VPCS.settings with working directories: local requests that name the    *)
(* working directory, remote requests that name a project, each with or    *)
(* without new port ranges; the new directory exists or not, and the move  *)
(* of the old directory succeeds or fails.                                 *)
(***************************************************************************)
DirRequests ==
    {[working_dir |-> ProjectsDir], [working_dir |-> <<"local">>],
     [project_name |-> "a"], [project_name |-> "b"]}

NewConsoleRange ==
    [console_start_port_range |-> DefaultConsoleStart + 1,
     console_end_port_range |-> SmallConsoleEnd]

NewUdpRange ==
    [udp_start_port_range |-> DefaultUdpStart + 1, udp_end_port_range |-> SmallUdpEnd]

SettingsRequests ==
    {d @@ c @@ u : d \in DirRequests, c \in {<<>>, NewConsoleRange},
                   u \in {<<>>, NewUdpRange}}

NextSettings ==
  /\ UNCHANGED <<devVars, vmVars, reset_deleted>>
  /\
    \/ (next_id <= MaxDevices /\ VPCS_create(DefaultPath, TRUE))
    \/ \E request \in SettingsRequests, isdir_new \in BOOLEAN, move_ok \in BOOLEAN :
          settings(request, isdir_new, move_ok)

SpecSettings == InitPool /\ [][NextSettings]_vars

\* the step is VPCS.settings handling request, with the move of the working
\* directory attempted and failing
MoveFailsNow(request) ==
    /\ \E isdir_new \in BOOLEAN : settings(request, isdir_new, FALSE)
    /\ reply'.status = "move_failed"

\* C21: a failed working-directory move is not fatal.  When VPCS.settings
\* has to move the old working directory and the move fails, the failure is
\* reported and the update is not aborted: the console and UDP port ranges
\* carried by the same request are still applied.
C21_FailedMoveNotFatal ==
    [][\A request \in SettingsRequests :
          MoveFailsNow(request) =>
              /\ Has(request, "console_start_port_range") =>
                    /\ console_start_port_range' = request.console_start_port_range
                    /\ console_end_port_range' = request.console_end_port_range
              /\ Has(request, "udp_start_port_range") =>
                    /\ udp_start_port_range' = request.udp_start_port_range
                    /\ udp_end_port_range' = request.udp_end_port_range]_vars


-----------------------------------------------------------------------------
(***************************************************************************)
(* The polling loop of _set_state under a fair event loop: a coroutine     *)
(* that sleeps in asyncio.sleep(0.1) is resumed.  The controller is        *)
(* connected without trouble to a Hyper-V that holds one VM of the name.   *)
(***************************************************************************)
InitWait ==
    /\ InitModule
    /\ InitPoolHistory
    /\ os_busy_tcp = {}
    /\ os_busy_udp = {}
    /\ InitDevices(0, NoCaps)
    /\ InitController
    /\ InitHyperV(1, HYPERV_VM_STATE_DISABLED)

\* Hyper-V answers a request with a pending job or completes it at once
WaitAnswers == {a \in Answers : a[1] \in {RET_COMPLETED, WMI_JOB_STATUS_STARTED}}

NextWait ==
  /\ UNCHANGED <<poolVars, reset_deleted, devVars>>
  /\
    \/ \E t \in Tasks, a \in WaitAnswers :
          /\ (a[2] = WMI_JOB_STATE_RUNNING => MaxPolls > 0)
          /\ start(t, TRUE, TRUE, TRUE, TRUE, TRUE, TRUE, a[1], a[2])
    \/ \E t \in Tasks, a \in WaitAnswers :
          /\ (a[2] = WMI_JOB_STATE_RUNNING => MaxPolls > 0)
          /\ suspend(t, TRUE, TRUE, TRUE, a[1], a[2])
    \/ \E t \in Tasks, a \in WaitAnswers :
          /\ (a[2] = WMI_JOB_STATE_RUNNING => MaxPolls > 0)
          /\ stop(t, TRUE, TRUE, TRUE, a[1], a[2])
    \/ \E t \in Tasks : MayRead(t) /\ wake(t)
    \/ \E t \in Tasks, js \in JobStates : JobEnds(t, js)

\* the event loop resumes the coroutine of task t
Resumes(t) == MayRead(t) /\ wake(t) /\ UNCHANGED <<poolVars, reset_deleted, devVars>>

SpecWait ==
    /\ InitWait
    /\ [][NextWait]_vars
    /\ \A t \in Tasks : WF_vars(Resumes(t))

\* the call of task t waits for a job
Waits(t) == pc[t] = "sleep"

\* the sleep of task t ends in this step and the job is read again
ReadsAgainNow(t) == Waits(t) /\ reads'[t] # reads[t]

\* C22: unbounded job wait.  A start, suspend or stop that received a
\* pending job completes, with success or with an error, if and only if the
\* job leaves the running state: a call that ends has read the job in another
\* state, and a call whose job has left the running state ends.  As long as
\* the job is running the call does not end: each time its sleep is over it
\* reads the job once, sleeps once more and does not write the running flag.
C22_UnboundedJobWait ==
    /\ [][\A t \in Tasks :
             (Waits(t) /\ pc'[t] = "idle") =>
                 /\ job_state[t] # WMI_JOB_STATE_RUNNING
                 /\ result'[t].status \in {"ok", "error"}]_vars
    /\ [][\A t \in Tasks :
             (ReadsAgainNow(t) /\ job_state[t] = WMI_JOB_STATE_RUNNING) =>
                 /\ pc'[t] = "sleep"
                 /\ reads'[t] = reads[t] + 1
                 /\ sleeps'[t] = sleeps[t] + 1
                 /\ result'[t] = NoResult
                 /\ running' = running]_vars
    /\ \A t \in Tasks :
          (Waits(t) /\ job_state[t] # WMI_JOB_STATE_RUNNING) ~> ~Waits(t)

\* a call still waits after it has read its job running MaxPolls times
C22_Witness ==
    \E t \in Tasks :
        /\ Waits(t)
        /\ job_state[t] = WMI_JOB_STATE_RUNNING
        /\ running_reads[t] = MaxPolls
        /\ sleeps[t] = MaxPolls
        /\ result[t] = NoResult


-----------------------------------------------------------------------------
(***************************************************************************)
(* Cancellation.  The caller cancels the task that runs start, suspend or  *)
(* stop while the coroutine is suspended in asyncio.sleep (line 173):      *)
(* CancelledError is thrown into the coroutine at that yield.  _set_state  *)
(* has no try around it, and the except clauses of lines 198, 218 and 234  *)
(* take GNS3VMError only, so the exception leaves the call.                *)
(***************************************************************************)
Cancelled == Error("CancelledError", "", <<>>)

\* a cancellation handler that marks the VM as not running
cancel_marks_stopped(t) ==
    /\ pc[t] = "sleep"
    /\ pc' = [pc EXCEPT ![t] = "idle"]
    /\ result' = [result EXCEPT ![t] = Cancelled]
    /\ running' = FALSE
    /\ UNCHANGED <<conn, management, vm, task_op, ret, reads, sleeps,
                   nb_vms, enabled_state, job_state, vm_ram_set, vm_cpu_set,
                   running_reads, enable_confirmed, seen_enabled>>

cancel(t) ==
    /\ pc[t] = "sleep"
    /\ pc' = [pc EXCEPT ![t] = "idle"]
    /\ result' = [result EXCEPT ![t] = Cancelled]
    /\ UNCHANGED <<conn, management, vm, running, task_op, ret, reads, sleeps,
                   nb_vms, enabled_state, job_state, vm_ram_set, vm_cpu_set,
                   running_reads, enable_confirmed, seen_enabled>>

NextCancel ==
    \/ NextWait
    \/ /\ UNCHANGED <<poolVars, reset_deleted, devVars>>
       /\ \E t \in Tasks : cancel(t)

SpecCancel == InitWait /\ [][NextCancel]_vars

\* the call of task t is cancelled in this step
CancelledNow(t) == Waits(t) /\ result'[t] = Cancelled

\* C23: cancellation of a polling VM operation only gives up waiting.  When
\* start, suspend or stop is cancelled while it sleeps between two reads of
\* its job, the loop stops (the job is not read again), the call has not
\* written the running flag, and the controller makes no further transition
\* request to roll the job back.
C23_CancelOnlyGivesUp ==
    /\ [][\A t \in Tasks :
             CancelledNow(t) =>
                 /\ pc'[t] = "idle"
                 /\ running' = running
                 /\ reads' = reads
                 /\ ret' = ret
                 /\ enabled_state' = enabled_state
                 /\ job_state' = job_state]_vars
    /\ [][\A t \in Tasks :
             (result[t] = Cancelled /\ result'[t] = Cancelled) =>
                 /\ reads'[t] = reads[t]
                 /\ ret'[t] = ret[t]]_vars
    /\ [][\A t \in Tasks :
             (pc'[t] = "sleep" /\ (pc[t] = "idle" \/ reads'[t] # reads[t]))
                 => running' = running]_vars

\* a start cancelled in its second sleep, with the job still running, the
\* VM not enabled and the flag false as before the call
C23_Witness ==
    \E t \in Tasks :
        /\ result[t] = Cancelled
        /\ pc[t] = "idle"
        /\ task_op[t] = "start"
        /\ sleeps[t] = 2
        /\ job_state[t] = WMI_JOB_STATE_RUNNING
        /\ ~running
        /\ \A u \in Tasks \ {t} : task_op[u] = "none"


-----------------------------------------------------------------------------
(***************************************************************************)
(* start() and the resources of the VM: the controller connects without    *)
(* trouble to a Hyper-V that holds the VM or not; self.vcpus fits the      *)
(* physical cores or not, and the two ModifyResourceSettings calls go      *)
(* through or not.                                                         *)
(***************************************************************************)
InitStart ==
    /\ InitModule
    /\ InitPoolHistory
    /\ os_busy_tcp = {}
    /\ os_busy_udp = {}
    /\ InitDevices(0, NoCaps)
    /\ InitController
    /\ \E n \in 0..1, state \in {HYPERV_VM_STATE_ENABLED, HYPERV_VM_STATE_DISABLED} :
          InitHyperV(n, state)

NextStart ==
  /\ UNCHANGED <<poolVars, reset_deleted, devVars>>
  /\
    \/ \E t \in Tasks, v \in ResourceInputs, a \in WaitAnswers :
          /\ (a[2] = WMI_JOB_STATE_RUNNING => MaxPolls > 0)
          /\ start(t, TRUE, TRUE, TRUE, v[1], v[2], v[3], a[1], a[2])
    \/ \E t \in Tasks, a \in WaitAnswers :
          /\ (a[2] = WMI_JOB_STATE_RUNNING => MaxPolls > 0)
          /\ stop(t, TRUE, TRUE, TRUE, a[1], a[2])
    \/ \E t \in Tasks : MayRead(t) /\ wake(t)
    \/ \E t \in Tasks, js \in JobStates : JobEnds(t, js)

SpecStart == InitStart /\ [][NextStart]_vars

\* the step is a call of start by task t, self.vcpus fitting the physical
\* cores (vcpus_ok) or not
StartsNow(t, vcpus_ok) ==
    \E v \in ResourceInputs, a \in WaitAnswers :
        /\ v[1] = vcpus_ok
        /\ start(t, TRUE, TRUE, TRUE, v[1], v[2], v[3], a[1], a[2])

\* C24: the vCPU validation precedes every mutation.  When start is called
\* on a VM that is not enabled with more vCPUs than the host has physical
\* cores, it fails before any memory or processor setting of the VM is
\* modified and before any transition request is made, and the running flag
\* is unchanged; when the count fits, the resources are configured before
\* the transition request and never after it.
C24_VcpuCheckFirst ==
    /\ [][\A t \in Tasks :
             (StartsNow(t, FALSE) /\ ~is_running(vm', enabled_state)) =>
                 /\ result'[t].status = "error"
                 /\ result'[t].cause = <<"too many vCPUs">>
                 /\ vm_ram_set' = vm_ram_set
                 /\ vm_cpu_set' = vm_cpu_set
                 /\ ret'[t] = NoRet
                 /\ enabled_state' = enabled_state
                 /\ job_state' = job_state
                 /\ running' = running]_vars
    /\ [][\A t \in Tasks :
             (StartsNow(t, TRUE) /\ ret'[t] # NoRet) =>
                 vm_ram_set' /\ vm_cpu_set']_vars
    /\ [][\A t \in Tasks :
             ReadsAgainNow(t) =>
                 vm_ram_set' = vm_ram_set /\ vm_cpu_set' = vm_cpu_set]_vars

\* a start refused for its vCPU count on a VM that is there and disabled:
\* no setting modified, no request made, the flag false
C24_Witness ==
    \E t \in Tasks :
        /\ result[t] = Error("GNS3VMError", "", <<"too many vCPUs">>)
        /\ task_op[t] = "start"
        /\ vm # NoVm
        /\ enabled_state = HYPERV_VM_STATE_DISABLED
        /\ ~vm_ram_set /\ ~vm_cpu_set
        /\ ret[t] = NoRet
        /\ ~running


-----------------------------------------------------------------------------
\* the UDP pool is the small range start..start+RangeLen-1 (30001..30003),
\* its log began with the cursor at start, and no port of it was OS-busy since
FreshSmallUdpPool ==
    /\ udp_fresh
    /\ udp_start_port_range = DefaultUdpStart
    /\ udp_end_port_range = SmallUdpEnd

\* C25: the UDP pool treats its range as inclusive, like the console pool.
\* With no port busy at OS level and a range start..end, successive
\* allocate_udp_port calls return start, start+1, ..., end (the port equal to
\* end is returned) before the cursor wraps back to start; the wrap happens
\* only after the cursor has exceeded end.
C25_UdpRangeInclusive ==
    FreshSmallUdpPool =>
        /\ \A i \in DOMAIN udp_log :
              udp_log[i] = DefaultUdpStart + ((i - 1) % RangeLen)


-----------------------------------------------------------------------------
\* the step is a call of start by task t that finds a VM of the name, shown
\* as enabled by Hyper-V
StartsOnEnabledNow(t) ==
    /\ \E vcpus_ok \in BOOLEAN : StartsNow(t, vcpus_ok)
    /\ vm' # NoVm
    /\ enabled_state = HYPERV_VM_STATE_ENABLED

\* C26: start is idempotent on an enabled VM.  When Hyper-V shows the VM as
\* already enabled, start applies no resource configuration and makes no
\* transition request, succeeds, and leaves the running flag true; so of two
\* successive starts with the VM staying enabled at most one makes a request.
C26_StartIdempotent ==
    [][\A t \in Tasks :
          StartsOnEnabledNow(t) =>
              /\ result'[t] = Ok
              /\ pc'[t] = "idle"
              /\ ret'[t] = NoRet
              /\ vm_ram_set' = vm_ram_set
              /\ vm_cpu_set' = vm_cpu_set
              /\ enabled_state' = enabled_state
              /\ job_state' = job_state
              /\ running']_vars

\* a start that made the request and saw its job completed, followed by a
\* start that made none: the VM is enabled and the flag true
C26_Witness ==
    /\ running
    /\ enabled_state = HYPERV_VM_STATE_ENABLED
    /\ vm_ram_set /\ vm_cpu_set
    /\ task_op = [t \in Tasks |-> "start"]
    /\ result = [t \in Tasks |-> Ok]
    /\ \E t \in Tasks :
          /\ ret[t] = WMI_JOB_STATUS_STARTED
          /\ job_state[t] = WMI_JOB_STATE_COMPLETED
          /\ \A u \in Tasks \ {t} : ret[u] = NoRet

=============================================================================
